---- MODULE Spec2Model ----
(***************************************************************************)
(* Model of the render/event loop of x11-datetime-overlay (src/src/main.c):*)
(* the wait until the next second boundary, the event drain, the decision  *)
(* to redraw, and the redraw (format, measure, geometry, configure, paint, *)
(* flush).  The wall clock is CLOCK_REALTIME as a (tv_sec, tv_nsec) pair;  *)
(* the X connection is a queue of pending events plus the requests the     *)
(* program has issued.                                                     *)
(***************************************************************************)
EXTENDS Integers, Sequences, FiniteSets, TLC

(***************************************************************************)
(* Bounds of the model.                                                    *)
(***************************************************************************)
\* the clock runs over the seconds 0..MaxSec of the observation window
MaxSec == 2
\* events the X connection can hold undrained
MaxQueue == 2
\* events, signals and poll failures that occur during the observation window
MaxDisturb == 2
\* text metrics are fixed-point numbers with Frac units per pixel
Frac == 4

(***************************************************************************)
(* Constants of the program and of the protocol it speaks.                 *)
(***************************************************************************)
NsPerMs == 1000000
MsPerSec == 1000
NsPerSec == NsPerMs * MsPerSec
XCB_EXPOSE == 12
XCB_VISIBILITY_NOTIFY == 15
XCB_CONFIGURE_NOTIFY == 22
SentBit == 128
XCB_STACK_MODE_ABOVE == 0
InitW == 64
InitH == 24

VARIABLES
  boot,         \* startup: argv, the option getopt_long returns next, what the
                \* X server will answer, exit status, connections, windows
                \* and measurement surfaces made
  opt,          \* options_t: margin_px, fg, bg, time_only
  screen,       \* xcb_screen_t: width_in_pixels
  font,         \* what the measurement context answers for the selected font
  clock,        \* CLOCK_REALTIME: [sec, nsec]
  pc,           \* position of main() in its loop
  t_entry,      \* clock when poll() was entered
  timeout_ms,   \* main: timeout_ms
  pr,           \* main: pr, the result of poll()
  errno,        \* errno left by poll()
  xq,           \* events pending on the connection (response_type bytes)
  need_redraw,  \* main: need_redraw
  nowbuf,       \* main: nowbuf
  te,           \* cairo_text_extents_t: x_advance, x_bearing
  fe,           \* cairo_font_extents_t: ascent, descent
  geom,         \* text_w, text_h, pad, win_w, win_h, new_x, new_y
  cfg,          \* the last configure request issued, or NoCfg
  surface,      \* the per-tick drawing surface, or NoSurface
  win,          \* geometry and stacking of the window on the X server
  ops,          \* the steps performed since the loop last reached its top
  wake,         \* why the last poll() returned
  hist          \* history: the last second shown, timeout-driven redraws,
                \* disturbances so far, events drained in this iteration

vars == <<boot, opt, screen, font, clock, pc, t_entry, timeout_ms, pr, errno, xq,
          need_redraw, nowbuf, te, fe, geom, cfg, surface, win, ops, wake,
          hist>>

config == <<boot, opt, screen, font>>
redrawVars == <<nowbuf, te, fe, geom, cfg, surface, win>>

NoCfg == [mask |-> {}]
NoSurface == [live |-> FALSE]

(***************************************************************************)
(* C integer conversions.                                                  *)
(***************************************************************************)
U16(v) == v % 65536

I16(v) == IF (v % 65536) >= 32768 THEN (v % 65536) - 65536 ELSE v % 65536

\* the smallest integer not below q/Frac
RoundHalfUp_ceil(q) == (q + Frac - 1) \div Frac

\* (int)(x + 0.5) of a non-negative double x held as q/Frac
RoundHalfUp(q) == (2 * q + Frac) \div (2 * Frac)

(***************************************************************************)
(* The clock.                                                              *)
(***************************************************************************)
AddNs(c, d) ==
  [sec |-> c.sec + ((c.nsec + d) \div NsPerSec), nsec |-> (c.nsec + d) % NsPerSec]

\* a timeout of ms milliseconds started at c (ms <= 1000)
AddMs(c, ms) == AddNs(c, ms * NsPerMs)

Before(a, b) == a.sec < b.sec \/ (a.sec = b.sec /\ a.nsec < b.nsec)

ms_to_next_second_unnormalized(ts) == MsPerSec - ((ts.nsec \div NsPerMs) % MsPerSec)

ms_to_next_second(ts) ==
  LET ms == ts.nsec \div NsPerMs
      rem == MsPerSec - (ms % MsPerSec)
  IN  IF rem = MsPerSec THEN 0 ELSE rem

(***************************************************************************)
(* now_timestr: time(NULL), localtime_r, strftime.                         *)
(***************************************************************************)
\* time(NULL) at second 0 of the observation window: 2024-01-15 09:05:00 UTC
Epoch0 == 19737 * 86400 + 9 * 3600 + 5 * 60

\* offset of the local timezone from UTC, in seconds
GmtOff == 60 * 60

\* the second nearest to the instant c
time_now_nearest(c) == Epoch0 + c.sec + (IF 2 * c.nsec >= NsPerSec THEN 1 ELSE 0)

\* line 162: time(NULL)
time_now(c) == Epoch0 + c.sec

DigitChars == <<"0", "1", "2", "3", "4", "5", "6", "7", "8", "9">>

Digit(d) == DigitChars[d + 1]

Pad2(n) == <<Digit((n \div 10) % 10), Digit(n % 10)>>

Pad4(n) == <<Digit((n \div 1000) % 10), Digit((n \div 100) % 10)>> \o Pad2(n % 100)

\* the civil date of day number z - 719468 since 1970-01-01
CivilFromDays(days) ==
  LET z == days + 719468
      era == z \div 146097
      doe == z - era * 146097
      yoe == (doe - (doe \div 1460) + (doe \div 36524) - (doe \div 146096)) \div 365
      doy == doe - (365 * yoe + (yoe \div 4) - (yoe \div 100))
      mp == (5 * doy + 2) \div 153
      d == doy - ((153 * mp + 2) \div 5) + 1
      m == IF mp < 10 THEN mp + 3 ELSE mp - 9
  IN  [year |-> yoe + era * 400 + (IF m <= 2 THEN 1 ELSE 0), mon |-> m, mday |-> d]

localtime_r(t) ==
  LET l == t + GmtOff
      sod == l % 86400
  IN  [date |-> CivilFromDays(l \div 86400),
       hour |-> sod \div 3600, min |-> (sod % 3600) \div 60, sec |-> sod % 60]

strftime_time(lt) == Pad2(lt.hour) \o <<":">> \o Pad2(lt.min) \o <<":">> \o Pad2(lt.sec)

strftime_date(lt) ==
  Pad4(lt.date.year) \o <<"-">> \o Pad2(lt.date.mon) \o <<"-">> \o Pad2(lt.date.mday)

now_timestr(c, time_only) ==
  LET lt == localtime_r(time_now(c))
  IN  IF time_only THEN strftime_time(lt)
      ELSE strftime_date(lt) \o <<" ">> \o strftime_time(lt)

(***************************************************************************)
(* Text measurement: what cairo answers for a string in the selected font. *)
(* The advance of a string is the sum of the advances of its glyphs; the   *)
(* glyph "1" may be narrower than the others (a proportional font).        *)
(***************************************************************************)
RECURSIVE CountOnes(_)
CountOnes(str) ==
  IF str = <<>> THEN 0
  ELSE (IF Head(str) = "1" THEN 1 ELSE 0) + CountOnes(Tail(str))

cairo_text_extents(f, str) ==
  [x_advance |-> Len(str) * f.glyph_adv - CountOnes(str) * f.narrow_one,
   x_bearing |-> f.x_bearing]

cairo_font_extents(f) == [ascent |-> f.ascent, descent |-> f.descent]

(***************************************************************************)
(* Geometry, lines 353-361.                                                *)
(***************************************************************************)
text_w_of(t) == RoundHalfUp(t.x_advance)

text_h_of(f) == RoundHalfUp(f.ascent + f.descent)

pad_of(margin_px) == U16(margin_px)

win_w_of(text_w, pad) == U16(text_w + pad * 2)

win_h_of(text_h, pad) == U16(text_h + pad * 2)

new_x_of(width_in_pixels, win_w, margin_px) == I16(width_in_pixels - win_w - margin_px)

new_y_of(margin_px) == I16(margin_px)

ComputeGeometry(t, f, o, s) ==
  LET tw == text_w_of(t)
      th == text_h_of(f)
      p == pad_of(o.margin_px)
      ww == win_w_of(tw, p)
      wh == win_h_of(th, p)
  IN  [text_w |-> tw, text_h |-> th, pad |-> p, win_w |-> ww, win_h |-> wh,
       new_x |-> new_x_of(s.width_in_pixels, ww, o.margin_px),
       new_y |-> new_y_of(o.margin_px)]

(***************************************************************************)
(* The environment: how long processing takes, when the X server sends.    *)
(***************************************************************************)
\* time between the return of poll() and the decision to redraw
WakeDelayNs == {400000, 2 * NsPerMs}

\* time a redraw takes, from now_timestr to the return of xcb_flush
PaintDelayNs == {400000}

\* instants inside a wait, as distances before its deadline
BeforeDeadlineNs == {400000, 10 * NsPerMs}

\* the response_type bytes the server sends: Expose, VisibilityNotify, a
\* synthetic ConfigureNotify (SendEvent sets bit 7), MapNotify
EventTypes ==
  {XCB_EXPOSE, XCB_VISIBILITY_NOTIFY, XCB_CONFIGURE_NOTIFY + SentBit, 19}

Deadline == AddMs(t_entry, timeout_ms)

InWindow(c) == c.sec <= MaxSec

(***************************************************************************)
(* The loop, lines 313-404.                                                *)
(***************************************************************************)
\* line 317: pr < 0 && errno == EINTR
Interrupted_never(p, e) == FALSE

Interrupted(p, e) == p < 0 /\ e = "EINTR"

\* line 328: the event types that request a redraw
IsRedrawEvent_all(rt) == TRUE

IsRedrawEvent(rt) ==
  rt = XCB_EXPOSE \/ rt = XCB_VISIBILITY_NOTIFY \/ rt = XCB_CONFIGURE_NOTIFY

\* line 324: ev->response_type & ~0x80
ResponseType(ev) == ev - ((ev \div SentBit) % 2) * SentBit

\* line 335: pr == 0
TickDue_never(p) == FALSE

TickDue(p) == p = 0

\* line 317: `continue` on EINTR, otherwise on to the drain loop
PollNext_exit_on_failure(p, e) ==
  IF Interrupted(p, e) THEN "top" ELSE IF p < 0 THEN "exit" ELSE "drain"

PollNext(p, e) == IF Interrupted(p, e) THEN "top" ELSE "drain"

\* line 319: need_redraw is declared inside the loop body and starts false
need_redraw_carried(prev) == prev

need_redraw_init(prev) == FALSE

\* line 339: if (need_redraw)
DecideNext_always(nr) == "format"

DecideNext(nr) == IF nr THEN "format" ELSE "top"

\* lines 363-371: the value mask and the values of xcb_configure_window
ConfigureRequest_geometry_only(g) ==
  [mask |-> {"x", "y", "width", "height"},
   x |-> g.new_x, y |-> g.new_y, width |-> g.win_w, height |-> g.win_h,
   stack_mode |-> XCB_STACK_MODE_ABOVE, sent |-> FALSE]

ConfigureRequest(g) ==
  [mask |-> {"x", "y", "width", "height", "stack_mode"},
   x |-> g.new_x, y |-> g.new_y, width |-> g.win_w, height |-> g.win_h,
   stack_mode |-> XCB_STACK_MODE_ABOVE, sent |-> FALSE]

\* the order of the statements of the redraw block, lines 339-403
StepAfter_no_destroy(s) ==
  CASE s = "format" -> "measure"
    [] s = "measure" -> "geometry"
    [] s = "geometry" -> "configure"
    [] s = "configure" -> "surface"
    [] s = "surface" -> "paint"
    [] s = "paint" -> "flush"
    [] s = "destroy" -> "flush"
    [] s = "flush" -> "top"

StepAfter_paint_first(s) ==
  CASE s = "format" -> "measure"
    [] s = "measure" -> "geometry"
    [] s = "geometry" -> "surface"
    [] s = "surface" -> "paint"
    [] s = "paint" -> "destroy"
    [] s = "destroy" -> "configure"
    [] s = "configure" -> "flush"
    [] s = "flush" -> "top"

StepAfter(s) ==
  CASE s = "format" -> "measure"
    [] s = "measure" -> "geometry"
    [] s = "geometry" -> "configure"
    [] s = "configure" -> "surface"
    [] s = "surface" -> "paint"
    [] s = "paint" -> "destroy"
    [] s = "destroy" -> "flush"
    [] s = "flush" -> "top"

\* lines 314-316: compute the timeout and enter poll()
LoopTop ==
  /\ pc = "top"
  /\ timeout_ms' = ms_to_next_second(clock)
  /\ t_entry' = clock
  /\ pc' = "poll"
  /\ ops' = <<>>
  /\ hist' = [hist EXCEPT !.drained = {}]
  /\ UNCHANGED <<config, clock, pr, errno, xq, need_redraw, redrawVars, wake>>

\* lines 317-319: what follows the return of poll()
AfterPoll(p, e, why) ==
  /\ pr' = p
  /\ errno' = e
  /\ wake' = why
  /\ pc' = PollNext(p, e)
  /\ need_redraw' = IF Interrupted(p, e) THEN need_redraw
                     ELSE need_redraw_init(need_redraw)
  /\ UNCHANGED <<config, t_entry, timeout_ms, xq, redrawVars, ops>>

\* time passes inside poll(): nothing is readable and the deadline is ahead
PollWait ==
  /\ pc = "poll"
  /\ xq = <<>>
  /\ \E d \in BeforeDeadlineNs :
       /\ Before(AddNs(clock, d), Deadline) \/ AddNs(clock, d) = Deadline
       /\ \E c \in {[sec |-> Deadline.sec - 1, nsec |-> Deadline.nsec + NsPerSec - d],
                    [sec |-> Deadline.sec, nsec |-> Deadline.nsec - d]} :
            /\ c.nsec \in 0..(NsPerSec - 1)
            /\ c.sec >= 0
            /\ Before(clock, c)
            /\ clock' = c
  /\ UNCHANGED <<config, pc, t_entry, timeout_ms, pr, errno, xq, need_redraw,
                 redrawVars, ops, wake, hist>>

\* line 316: poll() returns 0, the timeout expired with nothing readable
PollTimeout ==
  /\ pc = "poll"
  /\ xq = <<>>
  /\ InWindow(Deadline)
  /\ clock' = IF Before(clock, Deadline) THEN Deadline ELSE clock
  /\ AfterPoll(0, errno, "Timeout")
  /\ UNCHANGED hist

\* line 316: poll() returns 1, the connection is readable
PollReady ==
  /\ pc = "poll"
  /\ xq # <<>>
  /\ AfterPoll(1, errno, "Ready")
  /\ UNCHANGED <<clock, hist>>

\* line 316: poll() returns 1 but line 323 will find no event: the connection
\* was closed or failed (POLLHUP, POLLERR), or only part of an event arrived
PollNoEvent ==
  /\ pc = "poll"
  /\ xq = <<>>
  /\ hist.disturb < MaxDisturb
  /\ AfterPoll(1, errno, "NoEvent")
  /\ hist' = [hist EXCEPT !.disturb = @ + 1, !.faulty = TRUE]
  /\ UNCHANGED clock

\* line 316: poll() fails with EINTR, a signal handler ran
PollEINTR ==
  /\ pc = "poll"
  /\ hist.disturb < MaxDisturb
  /\ AfterPoll(-1, "EINTR", "Interrupted")
  /\ hist' = [hist EXCEPT !.disturb = @ + 1, !.faulty = TRUE]
  /\ UNCHANGED clock

\* line 316: poll() fails with another error
PollError ==
  /\ pc = "poll"
  /\ hist.disturb < MaxDisturb
  /\ AfterPoll(-1, "ENOMEM", "Error")
  /\ hist' = [hist EXCEPT !.disturb = @ + 1, !.faulty = TRUE]
  /\ UNCHANGED clock

\* lines 323-332, one turn of the drain loop: an event is returned
DrainOne ==
  /\ pc = "drain"
  /\ xq # <<>>
  /\ need_redraw' = (need_redraw \/ IsRedrawEvent(ResponseType(Head(xq))))
  /\ xq' = Tail(xq)
  /\ hist' = [hist EXCEPT !.drained = @ \cup {Head(xq)}]
  /\ UNCHANGED <<config, clock, pc, t_entry, timeout_ms, pr, errno, redrawVars,
                 ops, wake>>

\* line 323: xcb_poll_for_event returns NULL, the drain loop ends
DrainEnd ==
  /\ pc = "drain"
  /\ xq = <<>>
  /\ pc' = "decide"
  /\ UNCHANGED <<config, clock, t_entry, timeout_ms, pr, errno, xq, need_redraw,
                 redrawVars, ops, wake, hist>>

\* lines 335-339: the tick, and the decision to redraw
Decide ==
  /\ pc = "decide"
  /\ \E d \in WakeDelayNs :
       /\ InWindow(AddNs(clock, d))
       /\ clock' = AddNs(clock, d)
  /\ need_redraw' = (need_redraw \/ TickDue(pr))
  /\ ops' = IF TickDue(pr) THEN Append(ops, "tick") ELSE ops
  /\ pc' = DecideNext(need_redraw')
  /\ UNCHANGED <<config, t_entry, timeout_ms, pr, errno, xq, redrawVars,
                 wake, hist>>

Step(s) ==
  /\ pc = s
  /\ pc' = StepAfter(s)
  /\ ops' = Append(ops, s)
  /\ UNCHANGED <<config, t_entry, timeout_ms, pr, errno, xq, need_redraw,
                 wake>>

\* lines 340-341
Format ==
  /\ Step("format")
  /\ nowbuf' = now_timestr(clock, opt.time_only)
  /\ hist' = [hist EXCEPT !.fmt_sec = clock.sec]
  /\ UNCHANGED <<clock, te, fe, geom, cfg, surface, win>>

\* lines 344-351
Measure ==
  /\ Step("measure")
  /\ te' = cairo_text_extents(font, nowbuf)
  /\ fe' = cairo_font_extents(font)
  /\ UNCHANGED <<clock, nowbuf, geom, cfg, surface, win, hist>>

\* lines 353-361
Geometry ==
  /\ Step("geometry")
  /\ geom' = ComputeGeometry(te, fe, opt, screen)
  /\ UNCHANGED <<clock, nowbuf, te, fe, cfg, surface, win, hist>>

\* lines 363-371
Configure ==
  /\ Step("configure")
  /\ cfg' = ConfigureRequest(geom)
  /\ UNCHANGED <<clock, nowbuf, te, fe, geom, surface, win, hist>>

\* lines 379-380: cairo_xcb_surface_create returns a surface or, on failure,
\* a surface in an error state; its status is not looked at
Surface ==
  /\ Step("surface")
  /\ \E st \in {"ok", "error"} :
       /\ st = "error" => hist.disturb < MaxDisturb
       /\ surface' = [live |-> TRUE, status |-> st, width |-> geom.win_w,
                      height |-> geom.win_h, after_cfg |-> cfg, text |-> <<>>,
                      calls |-> {}]
       /\ hist' = IF st = "error"
                  THEN [hist EXCEPT !.disturb = @ + 1, !.faulty = TRUE]
                  ELSE hist
  /\ UNCHANGED <<clock, nowbuf, te, fe, geom, cfg, win>>

\* lines 383-396: cairo_paint and cairo_show_text are called whatever the
\* status of the surface; on a surface in an error state they draw nothing
Paint ==
  /\ Step("paint")
  /\ surface' = IF surface.live
                THEN [surface EXCEPT
                        !.calls = {"cairo_paint", "cairo_show_text"},
                        !.text = IF surface.status = "ok" THEN nowbuf ELSE @]
                ELSE surface
  /\ win' = IF surface.live /\ surface.status = "ok"
            THEN [win EXCEPT !.drawn = [bg |-> opt.bg, fg |-> opt.fg,
                                        text |-> nowbuf,
                                        text_x |-> geom.pad * Frac - te.x_bearing,
                                        text_y |-> geom.pad * Frac + fe.ascent,
                                        width |-> surface.width,
                                        height |-> surface.height]]
            ELSE win
  /\ UNCHANGED <<clock, nowbuf, te, fe, geom, cfg, hist>>

\* lines 397-398
Destroy ==
  /\ Step("destroy")
  /\ surface' = NoSurface
  /\ UNCHANGED <<clock, nowbuf, te, fe, geom, cfg, win, hist>>

\* the X server executes a ConfigureWindow request; a zero width or height
\* is a BadValue error and changes nothing
ServerConfigure(w, c) ==
  IF c.mask = {} \/ c.width = 0 \/ c.height = 0 THEN w
  ELSE [w EXCEPT !.x = c.x, !.y = c.y, !.width = c.width, !.height = c.height,
                 !.above = IF "stack_mode" \in c.mask
                           THEN c.stack_mode = XCB_STACK_MODE_ABOVE
                           ELSE FALSE]

\* lines 400-402: the requests of this tick reach the server
Flush ==
  /\ Step("flush")
  /\ \E d \in PaintDelayNs :
       /\ InWindow(AddNs(clock, d))
       /\ clock' = AddNs(clock, d)
  /\ win' = [ServerConfigure(win, cfg) EXCEPT !.shown = win.drawn]
  /\ cfg' = [cfg EXCEPT !.sent = TRUE]
  /\ hist' = [hist EXCEPT
       !.last_shown = IF win.drawn.text = nowbuf THEN hist.fmt_sec ELSE @,
       !.out = [sec |-> hist.fmt_sec, why |-> wake, str |-> nowbuf,
                te |-> te, fe |-> fe, geom |-> geom],
       !.last_tick = IF wake = "Timeout" THEN hist.fmt_sec ELSE @,
       !.dup_tick = @ \/ (wake = "Timeout" /\ hist.last_tick = hist.fmt_sec)]
  /\ UNCHANGED <<nowbuf, te, fe, geom, surface>>

\* the X server sends an event to the window
XEvent ==
  /\ Len(xq) < MaxQueue
  /\ hist.disturb < MaxDisturb
  /\ \E ev \in EventTypes : xq' = Append(xq, ev)
  /\ hist' = [hist EXCEPT !.disturb = @ + 1]
  /\ UNCHANGED <<config, clock, pc, t_entry, timeout_ms, pr, errno, need_redraw,
                 redrawVars, ops, wake>>

(***************************************************************************)
(* The state when the loop is entered, lines 258-311.                      *)
(***************************************************************************)
NoDrawing == [text |-> <<>>]

\* lines 265-278 and 297-301: the window as created, mapped and raised
CreatedWindow(o, s) ==
  [x |-> I16(s.width_in_pixels - InitW - o.margin_px), y |-> I16(o.margin_px),
   width |-> InitW, height |-> InitH, above |-> TRUE,
   drawn |-> NoDrawing, shown |-> NoDrawing]

NoWindow == [width |-> 0, height |-> 0, above |-> FALSE,
             drawn |-> NoDrawing, shown |-> NoDrawing]

NoHistory == [last_shown |-> -1, fmt_sec |-> -1, last_tick |-> -1, dup_tick |-> FALSE,
              disturb |-> 0, faulty |-> FALSE, drained |-> {},
              out |-> [sec |-> -1]]

\* lines 311-319: the locals of main() before the first iteration
LoopLocals ==
  /\ t_entry = clock
  /\ timeout_ms = 0
  /\ pr = 0
  /\ errno = "none"
  /\ xq = <<>>
  /\ need_redraw = FALSE
  /\ nowbuf = <<>>
  /\ te = [x_advance |-> 0, x_bearing |-> 0]
  /\ fe = [ascent |-> 0, descent |-> 0]
  /\ geom = [text_w |-> 0, text_h |-> 0, pad |-> 0, win_w |-> InitW, win_h |-> InitH,
             new_x |-> 0, new_y |-> 0]
  /\ cfg = NoCfg
  /\ surface = NoSurface
  /\ ops = <<>>
  /\ wake = "none"
  /\ hist = NoHistory

\* lines 178-186: the defaults; a colour channel c stands for c / 255.0
DefaultOptions ==
  [margin_px |-> 8, fg |-> <<255, 255, 255>>, bg |-> <<0, 0, 0>>,
   time_only |-> FALSE]

\* lines 200-311 done: options parsed, connected, the window and the one
\* measurement surface created
Booted ==
  [args |-> <<>>, optind |-> 1,
   x |-> [connect |-> TRUE, screen |-> TRUE, visual |-> TRUE],
   status |-> -1, connects |-> 1, connected |-> TRUE, windows |-> 1,
   measure_surfaces |-> 1]

LoopEntry ==
  /\ pc = "top"
  /\ boot = Booted
  /\ win = CreatedWindow(opt, screen)
  /\ LoopLocals

(***************************************************************************)
(* Startup, lines 57-83 and 200-311. Strings are sequences of characters.  *)
(***************************************************************************)
HexLower ==
  <<"0", "1", "2", "3", "4", "5", "6", "7", "8", "9", "a", "b", "c", "d", "e", "f">>

HexUpper == <<"A", "B", "C", "D", "E", "F">>

isxdigit(c) ==
  \/ \E i \in DOMAIN HexLower : HexLower[i] = c
  \/ \E i \in DOMAIN HexUpper : HexUpper[i] = c

\* lines 63-65: the value of a hexadecimal digit
HexValue(c) ==
  IF \E i \in DOMAIN HexLower : HexLower[i] = c
  THEN (CHOOSE i \in DOMAIN HexLower : HexLower[i] = c) - 1
  ELSE (CHOOSE i \in DOMAIN HexUpper : HexUpper[i] = c) + 9

\* lines 57-68: the two characters of p from position at, or -1
parse_hex2(p, at) ==
  IF ~isxdigit(p[at]) \/ ~isxdigit(p[at + 1]) THEN -1
  ELSE 16 * HexValue(p[at]) + HexValue(p[at + 1])

\* any six characters pass, a character that is no digit counts as 0
parse_rgb_hex_unchecked(hex) ==
  LET p == IF hex # <<>> /\ hex[1] = "#" THEN Tail(hex) ELSE hex
      v(at) == IF parse_hex2(p, at) < 0 THEN 0 ELSE parse_hex2(p, at)
  IN  IF Len(p) # 6 THEN [ok |-> FALSE, rgb |-> <<>>]
      ELSE [ok |-> TRUE, rgb |-> <<v(1), v(3), v(5)>>]

\* lines 70-83: "#RRGGBB" or "RRGGBB"
parse_rgb_hex(hex) ==
  LET p == IF hex # <<>> /\ hex[1] = "#" THEN Tail(hex) ELSE hex
  IN  IF Len(p) # 6 THEN [ok |-> FALSE, rgb |-> <<>>]
      ELSE LET rr == parse_hex2(p, 1)
               gg == parse_hex2(p, 3)
               bb == parse_hex2(p, 5)
           IN  IF rr < 0 \/ gg < 0 \/ bb < 0 THEN [ok |-> FALSE, rgb |-> <<>>]
               ELSE [ok |-> TRUE, rgb |-> <<rr, gg, bb>>]

IsDigitChar(c) == \E i \in DOMAIN DigitChars : DigitChars[i] = c

RECURSIVE DecimalPrefix(_, _)
DecimalPrefix(str, acc) ==
  IF str = <<>> \/ ~IsDigitChar(Head(str)) THEN acc
  ELSE DecimalPrefix(Tail(str),
         acc * 10 + (CHOOSE i \in DOMAIN DigitChars : DigitChars[i] = Head(str)) - 1)

\* line 206: (uint32_t)strtoul(optarg, NULL, 10), for unsigned decimal text
\* of at most nine digits, which the cast to 32 bits leaves as it is
strtoul_u32(str) == DecimalPrefix(str, 0)

\* at most this many options on the command line
MaxArgs == 2

\* the options getopt_long can return, with optarg
ArgOptions ==
  {[name |-> "fg", arg |-> <<"#", "E", "A", "e", "a", "0", "9">>],
   [name |-> "fg", arg |-> <<"#", "1", "2", "G", "4", "5", "6">>],
   [name |-> "fg", arg |-> <<"#", "F", "F", "F">>],
   [name |-> "bg", arg |-> <<"1", "0", "2", "0", "f", "F">>],
   [name |-> "bg", arg |-> <<"r", "e", "d">>],
   [name |-> "m", arg |-> <<"1", "0">>],
   [name |-> "m", arg |-> <<"1", "2", "p", "x">>],
   [name |-> "t", arg |-> <<>>],
   [name |-> "f", arg |-> <<"x">>],
   [name |-> "h", arg |-> <<>>],
   [name |-> "?", arg |-> <<>>]}

ArgLists == UNION {[1..n -> ArgOptions] : n \in 0..MaxArgs}

\* lines 202-220: one turn of the switch; status -1 stands for `break`
ParseCase(o, op) ==
  CASE op.name = "h" -> [opt |-> o, status |-> 0]
    [] op.name = "m" ->
         [opt |-> [o EXCEPT !.margin_px = strtoul_u32(op.arg)], status |-> -1]
    [] op.name = "t" -> [opt |-> [o EXCEPT !.time_only = TRUE], status |-> -1]
    [] op.name = "fg" ->
         IF parse_rgb_hex(op.arg).ok
         THEN [opt |-> [o EXCEPT !.fg = parse_rgb_hex(op.arg).rgb], status |-> -1]
         ELSE [opt |-> o, status |-> 2]
    [] op.name = "bg" ->
         IF parse_rgb_hex(op.arg).ok
         THEN [opt |-> [o EXCEPT !.bg = parse_rgb_hex(op.arg).rgb], status |-> -1]
         ELSE [opt |-> o, status |-> 2]
    [] op.name \in {"f", "s", "d"} -> [opt |-> o, status |-> -1]
    [] OTHER -> [opt |-> o, status |-> 2]

startVars == <<screen, font, clock, t_entry, timeout_ms, pr, errno, xq,
               need_redraw, nowbuf, te, fe, geom, cfg, surface, ops, wake, hist>>

\* lines 201-220: getopt_long returns an option
ParseOption ==
  /\ pc = "args"
  /\ boot.optind <= Len(boot.args)
  /\ LET r == ParseCase(opt, boot.args[boot.optind])
     IN  /\ opt' = r.opt
         /\ boot' = [boot EXCEPT !.optind = @ + 1, !.status = r.status]
         /\ pc' = IF r.status = -1 THEN "args" ELSE "exited"
  /\ UNCHANGED <<startVars, win>>

\* line 201: getopt_long returns -1
ParseDone ==
  /\ pc = "args"
  /\ boot.optind > Len(boot.args)
  /\ pc' = "connect"
  /\ UNCHANGED <<startVars, win, boot, opt>>

\* lines 229-234
Connect ==
  /\ pc = "connect"
  /\ boot' = [boot EXCEPT !.connects = @ + 1,
                          !.connected = boot.x.connect,
                          !.status = IF boot.x.connect THEN @ ELSE 1]
  /\ pc' = IF boot.x.connect THEN "screen" ELSE "exited"
  /\ UNCHANGED <<startVars, win, opt>>

\* lines 236-244
GetScreen ==
  /\ pc = "screen"
  /\ boot' = [boot EXCEPT !.connected = boot.x.screen,
                          !.status = IF boot.x.screen THEN @ ELSE 1]
  /\ pc' = IF boot.x.screen THEN "visual" ELSE "exited"
  /\ UNCHANGED <<startVars, win, opt>>

\* lines 250-255
GetVisual ==
  /\ pc = "visual"
  /\ boot' = [boot EXCEPT !.connected = boot.x.visual,
                          !.status = IF boot.x.visual THEN @ ELSE 1]
  /\ pc' = IF boot.x.visual THEN "window" ELSE "exited"
  /\ UNCHANGED <<startVars, win, opt>>

\* lines 258-301: create, shape, hint, map and raise the window
CreateWindow ==
  /\ pc = "window"
  /\ boot' = [boot EXCEPT !.windows = @ + 1]
  /\ win' = CreatedWindow(opt, screen)
  /\ pc' = "measure"
  /\ UNCHANGED <<startVars, opt>>

\* lines 303-311: the measurement surface and its context; on to the loop
CreateMeasure ==
  /\ pc = "measure"
  /\ boot' = [boot EXCEPT !.measure_surfaces = @ + 1]
  /\ pc' = "top"
  /\ UNCHANGED <<startVars, win, opt>>

\* the default options on a 1920 pixel wide screen, DejaVu Sans Mono 16 px
DefaultFont ==
  [glyph_adv |-> 10 * Frac, narrow_one |-> 0, x_bearing |-> Frac,
   ascent |-> 15 * Frac, descent |-> 4 * Frac]

StartNs == {300 * NsPerMs}

Init ==
  /\ opt \in {[DefaultOptions EXCEPT !.time_only = t] : t \in BOOLEAN}
  /\ screen = [width_in_pixels |-> 1920]
  /\ font = DefaultFont
  /\ clock \in {[sec |-> 0, nsec |-> n] : n \in StartNs}
  /\ LoopEntry

Next ==
  \/ LoopTop
  \/ PollWait
  \/ PollTimeout
  \/ PollReady
  \/ PollNoEvent
  \/ PollEINTR
  \/ PollError
  \/ DrainOne
  \/ DrainEnd
  \/ Decide
  \/ Format
  \/ Measure
  \/ Geometry
  \/ Configure
  \/ Surface
  \/ Paint
  \/ Destroy
  \/ Flush
  \/ XEvent

Spec == Init /\ [][Next]_vars

(***************************************************************************)
(* Startup on every short command line and every answer of the X server,   *)
(* up to the first wait of the loop.                                        *)
(***************************************************************************)
InitStart ==
  /\ boot \in {[args |-> a, optind |-> 1, x |-> e, status |-> -1, connects |-> 0,
                connected |-> FALSE, windows |-> 0, measure_surfaces |-> 0] :
               a \in ArgLists,
               e \in [connect : BOOLEAN, screen : BOOLEAN, visual : BOOLEAN]}
  /\ opt = DefaultOptions
  /\ screen = [width_in_pixels |-> 1920]
  /\ font = DefaultFont
  /\ clock \in {[sec |-> 0, nsec |-> n] : n \in StartNs}
  /\ pc = "args"
  /\ win = NoWindow
  /\ LoopLocals

NextStart ==
  \/ ParseOption
  \/ ParseDone
  \/ Connect
  \/ GetScreen
  \/ GetVisual
  \/ CreateWindow
  \/ CreateMeasure
  \/ LoopTop

SpecStart == InitStart /\ [][NextStart]_vars

(***************************************************************************)
(* ms_to_next_second at every instant: the clock starts anywhere on a      *)
(* quarter-millisecond grid and the loop waits once.                       *)
(***************************************************************************)
InitClock ==
  /\ opt = [DefaultOptions EXCEPT !.time_only = TRUE]
  /\ screen = [width_in_pixels |-> 1920]
  /\ font = DefaultFont
  /\ clock \in {[sec |-> 0, nsec |-> k * 250000] : k \in 0..3999}
  /\ LoopEntry

NextClock ==
  \/ LoopTop
  \/ PollTimeout

SpecClock == InitClock /\ [][NextClock]_vars

(***************************************************************************)
(* The geometry over the range of its inputs: any margin, screen width and *)
(* font, redrawn by timeout ticks in the last second of the window.        *)
(***************************************************************************)
GeomMargins == {0, 8, 600, 40000}

GeomWidths == {1920, 32767, 40000}

GeomFonts ==
  {[glyph_adv |-> g, narrow_one |-> n, x_bearing |-> 0, ascent |-> a,
    descent |-> 4 * Frac] :
     g \in {15 * Frac, 16 * Frac, 8189 * Frac, 8190 * Frac},
     n \in {0, 1, 3},
     a \in {14 * Frac, 14 * Frac + 1, 65530 * Frac}}

InitGeom ==
  /\ opt \in {[DefaultOptions EXCEPT !.margin_px = m, !.time_only = TRUE] :
               m \in GeomMargins}
  /\ screen \in {[width_in_pixels |-> w] : w \in GeomWidths}
  /\ font \in GeomFonts
  /\ clock = [sec |-> MaxSec, nsec |-> 0]
  /\ LoopEntry

NextGeom ==
  \/ LoopTop
  \/ PollTimeout
  \/ DrainEnd
  \/ Decide
  \/ Format
  \/ Measure
  \/ Geometry
  \/ Configure
  \/ Surface
  \/ Paint
  \/ Destroy
  \/ Flush

SpecGeom == InitGeom /\ [][NextGeom]_vars

(***************************************************************************)
(* Properties.                                                             *)
(***************************************************************************)
IsPrefix(a, b) == Len(a) <= Len(b) /\ a = SubSeq(b, 1, Len(a))

RedrawPcs ==
  {"format", "measure", "geometry", "configure", "surface", "paint", "destroy", "flush"}

\* every second that has fully elapsed since the loop started was shown by a
\* redraw
ElapsedSecondsShown == clock.sec >= 2 => hist.last_shown >= clock.sec - 1

\* C1: with no event and no signal, every second is redrawn exactly once:
\* every second boundary is followed by a redraw showing that second and no
\* second has two timeout-driven redraws.
C1_OncePerSecond ==
  hist.disturb = 0 => (~hist.dup_tick /\ ElapsedSecondsShown)

\* C1, the case found: a timeout-driven redraw has completed while the clock
\* is still in the first millisecond of the second, and the loop is back at
\* its top.
C1_BoundaryReentry ==
  /\ hist.disturb = 0
  /\ pc = "top"
  /\ wake = "Timeout"
  /\ hist.last_tick = clock.sec
  /\ clock.nsec < NsPerMs

\* C2: whatever events arrive, every second boundary reached while the loop
\* runs is followed, before the next boundary, by a redraw showing the second
\* that starts there (processing takes a few milliseconds at most here; no
\* signal interrupts a wait and no wait fails).
C2_EverySecondShown == ~hist.faulty => ElapsedSecondsShown

\* C2, the case found: an event that requests no redraw woke the wait just
\* before a boundary and the boundary passed while it was processed.
C2_WokenBeforeBoundary ==
  /\ ~hist.faulty
  /\ wake = "Ready"
  /\ pc = "top"
  /\ ~need_redraw
  /\ clock.sec = t_entry.sec + 1
  /\ clock.nsec >= NsPerMs

\* C3 as stated: the wait computed at instant t is in 0..999 ms and t plus
\* the wait is an exact second boundary.
C3_ExactBoundary ==
  pc = "poll" =>
    /\ timeout_ms \in 0..999
    /\ AddMs(t_entry, timeout_ms).nsec = 0

\* C3 as amended: the wait computed at instant t is in 0..999 ms, and t
\* rounded down to a whole millisecond plus the wait is an exact second
\* boundary; t plus the wait itself is at a boundary or less than one
\* millisecond past it.
C3_BoundaryOfTruncated ==
  pc = "poll" =>
    /\ timeout_ms \in 0..999
    /\ AddMs([t_entry EXCEPT !.nsec = (@ \div 1000000) * 1000000], timeout_ms).nsec = 0
    /\ AddMs(t_entry, timeout_ms).nsec < 1000000
    /\ AddMs(t_entry, timeout_ms).nsec = t_entry.nsec % 1000000

\* C3: a wait was computed at an instant that is not a whole millisecond, in
\* the millisecond that starts a second.
C3_SubMillisecondInstant ==
  /\ pc = "poll"
  /\ t_entry.nsec % 1000000 # 0
  /\ t_entry.nsec < 1000000
  /\ timeout_ms = 0

\* the event types that request a redraw, bit 7 of the byte ignored
RequestsRedraw(ev) == (ev % 128) \in {12, 15, 22}

\* C4: a drained Expose, VisibilityNotify or ConfigureNotify sets need_redraw,
\* a drained event of another type leaves it as it was, and an iteration
\* woken by events whose drained events are all of other types redraws
\* nothing.
C4_Classification ==
  /\ [][(pc = "drain" /\ xq # <<>> /\ xq' = Tail(xq)) =>
          need_redraw' = (IF RequestsRedraw(Head(xq)) THEN TRUE ELSE need_redraw)]_vars
  /\ []((wake = "Ready" /\ \A ev \in hist.drained : ~RequestsRedraw(ev)) =>
          (ops = <<>> /\ pc \notin RedrawPcs))

\* C4: an iteration woken by an event has drained only events of other types
\* and is back at the top of the loop.
C4_OnlyOtherEventsDrained ==
  /\ wake = "Ready"
  /\ pc = "top"
  /\ hist.drained # {}
  /\ \A ev \in hist.drained : ~RequestsRedraw(ev)

FullTick ==
  <<"tick", "format", "measure", "geometry", "configure", "surface", "paint",
    "destroy", "flush">>

\* C5: an iteration whose wait expired by timeout forces need_redraw once and
\* performs exactly one redraw sequence.
C5_OneRedrawPerTimeout ==
  wake = "Timeout" =>
    /\ IsPrefix(ops, FullTick)
    /\ pc = "top" => ops = FullTick
    /\ pc \in RedrawPcs => need_redraw

\* C5: a timeout iteration has completed its redraw.
C5_TimeoutTickDone == wake = "Timeout" /\ pc = "top" /\ Len(ops) = 9

\* C6: after poll fails with EINTR the loop is back at its top, or in the
\* next wait with a timeout computed from the clock at that moment; nothing
\* was drained, configured, painted or flushed.
C6_InterruptedContinues ==
  wake = "Interrupted" =>
    /\ pc \in {"top", "poll"}
    /\ ops = <<>>
    /\ hist.drained = {}
    /\ surface = NoSurface
    /\ pc = "poll" =>
         /\ AddMs(t_entry, timeout_ms).nsec < 1000000
         /\ timeout_ms = (1000 - (t_entry.nsec \div 1000000)) % 1000

\* C6: a wait was interrupted while an event was pending, and the loop has
\* entered the next wait.
C6_InterruptedWithEventPending ==
  wake = "Interrupted" /\ pc = "poll" /\ xq # <<>>

RedrawOrder ==
  <<"format", "measure", "geometry", "configure", "surface", "paint", "destroy",
    "flush">>

RedrawOps == SelectSeq(ops, LAMBDA o : o # "tick")

\* C7: the steps of a redraw happen in the order format, measure, geometry,
\* configure, surface creation, paint, flush; the surface painted in a tick
\* is created after that tick's configure request, with the width and height
\* that request carries.
C7_GeometryBeforePaint ==
  /\ IsPrefix(RedrawOps, RedrawOrder)
  /\ surface.live =>
       /\ cfg.mask # {}
       /\ ~cfg.sent
       /\ surface.width = cfg.width
       /\ surface.height = cfg.height
       /\ surface.after_cfg = cfg

\* C7: a surface has been created in a tick that follows an earlier, already
\* flushed, configure request.
C7_SurfaceInLaterTick ==
  /\ surface.live
  /\ pc = "paint"
  /\ win.shown # NoDrawing

\* C8: the values of every configure request satisfy
\* x + width + margin = screenWidth, for every screen width, margin and
\* measured text width.
C8_RightAligned ==
  pc = "surface" => cfg.x + cfg.width + opt.margin_px = screen.width_in_pixels

\* C8, the case found: a configure request was issued for a padded width
\* that does not fit 16 bits.
C8_WidthWraps ==
  pc = "surface" /\ geom.text_w + 2 * opt.margin_px > 65535

\* C9: for a fixed margin, a text advance that is not larger never gives a
\* larger window width.
C9_WidthMonotonic ==
  pc = "configure" =>
    \A f \in GeomFonts :
      cairo_text_extents(f, nowbuf).x_advance <= te.x_advance =>
        win_w_of(text_w_of(cairo_text_extents(f, nowbuf)), geom.pad) <= geom.win_w

\* C9, the case found: the geometry was computed for a text whose padded
\* width is 65536 pixels or more.
C9_WideText ==
  pc = "configure" /\ geom.text_w + 2 * geom.pad > 65535 /\ geom.text_w <= 65535

IntegerMetrics ==
  te.x_advance % Frac = 0 /\ fe.ascent % Frac = 0 /\ fe.descent % Frac = 0

\* width + margin <= screenWidth <= 32767, width being the padded text width
FitsAcross ==
  (te.x_advance \div Frac) + 3 * opt.margin_px <= screen.width_in_pixels
    /\ screen.width_in_pixels <= 32767

ConfiguredAsSpecified ==
  /\ cfg.width = (te.x_advance \div Frac) + 2 * opt.margin_px
  /\ cfg.height = (fe.ascent \div Frac) + (fe.descent \div Frac) + 2 * opt.margin_px
  /\ cfg.x = screen.width_in_pixels - cfg.width - opt.margin_px
  /\ cfg.y = opt.margin_px

IsEndToEndScenario ==
  /\ screen.width_in_pixels = 1920
  /\ opt.margin_px = 8
  /\ te.x_advance = 120 * Frac
  /\ fe.ascent = 14 * Frac
  /\ fe.descent = 4 * Frac

\* C10: with integer metrics and width + margin <= screenWidth <=
\* 32767, the configure request carries width = advance + 2*margin, height =
\* ascent + descent + 2*margin, x = screenWidth - width - margin, y = margin.
C10_Geometry ==
  (pc = "surface" /\ IntegerMetrics /\ FitsAcross) => ConfiguredAsSpecified

\* The formulas of C10 hold whenever the padded height fits 16 bits as well.
GeometryWithinSixteenBits ==
  (pc = "surface" /\ IntegerMetrics /\ FitsAcross
     /\ (fe.ascent \div Frac) + (fe.descent \div Frac) + 2 * opt.margin_px <= 65535)
    => ConfiguredAsSpecified

\* C10, the scenario of the claim: screenWidth 1920, margin 8, advance 120,
\* ascent 14, descent 4 is configured as width 136, height 34, x 1776, y 8.
C10_EndToEndConfigured ==
  /\ pc = "surface"
  /\ IsEndToEndScenario
  /\ cfg.width = 136 /\ cfg.height = 34 /\ cfg.x = 1776 /\ cfg.y = 8

\* the smallest integer not below the fixed-point number q
Ceil(q) == IF q % Frac = 0 THEN q \div Frac ELSE (q \div Frac) + 1

\* the integer nearest to the fixed-point number q, halves upwards
Nearest(q) == IF 2 * (q % Frac) >= Frac THEN (q \div Frac) + 1 ELSE q \div Frac

SizesFitSixteenBits ==
  /\ opt.margin_px <= 65535
  /\ Nearest(te.x_advance) + 2 * opt.margin_px <= 65535
  /\ Nearest(fe.ascent + fe.descent) + 2 * opt.margin_px <= 65535

C12_SameSecondSameOutput ==
  (pc = "flush" /\ hist.out.sec = hist.fmt_sec) =>
    /\ hist.out.str = nowbuf
    /\ hist.out.te = te
    /\ hist.out.fe = fe
    /\ hist.out.geom = geom

\* C12: a redraw woken by an event has computed its output in the second
\* already shown by a timeout tick.
C12_EventTickAfterTimeoutTick ==
  /\ pc = "flush"
  /\ hist.out.sec = hist.fmt_sec
  /\ hist.out.why = "Timeout"
  /\ wake = "Ready"

LoopPcs == {"top", "poll", "drain", "decide"} \cup RedrawPcs

\* the steps main() itself can take, no fault injected; Format and Measure
\* are Step with assignments of values that always exist, so that they can be
\* taken exactly when their Step can
LoopStep ==
  \/ LoopTop \/ PollTimeout \/ PollReady \/ DrainOne \/ DrainEnd \/ Decide
  \/ Step("format") \/ Step("measure") \/ Geometry \/ Configure \/ Surface
  \/ Paint \/ Destroy \/ Flush

\* the next step would pass the end of the observation window
AtHorizon ==
  \/ pc = "poll" /\ ~InWindow(Deadline)
  \/ pc = "decide" /\ \A d \in WakeDelayNs : ~InWindow(AddNs(clock, d))
  \/ pc = "flush" /\ \A d \in PaintDelayNs : ~InWindow(AddNs(clock, d))

\* C13: the loop is always at one of its own positions, never past its end,
\* and in every reachable state it can take a further step (up to the end of
\* the observation window): no state is terminal, whatever poll() returned
\* and whatever the drain and the redraw did.
C13_NeverExits ==
  /\ pc \in LoopPcs
  /\ AtHorizon \/ ENABLED LoopStep

\* C13: poll() has failed with an error other than EINTR and the loop is back
\* at its top.
C13_BackAtTopAfterPollFailure ==
  /\ pc = "top"
  /\ wake = "Error"
  /\ pr < 0
  /\ errno # "EINTR"

\* C15: nothing is painted through a surface whose creation failed: neither
\* the background fill nor the text draw is called on it.
C15_FailedSurfaceNotPainted ==
  (surface.live /\ surface.status = "error") => surface.calls = {}

\* C15: the surface of this tick was created in an error state.
C15_SurfaceCreationFailed ==
  /\ pc = "paint"
  /\ surface.live
  /\ surface.status = "error"

\* C16: whenever poll() has returned and the drain is over, the return was a
\* timeout or at least one event was consumed (a signal interruption never
\* reaches the drain).
C16_EveryWakeTimeoutOrEvent ==
  pc = "decide" => (wake = "Timeout" \/ hist.drained # {})

\* C16: an iteration woken by a readable descriptor has consumed no event and
\* is back at the top of the loop.
C16_WokenForNothing ==
  /\ pc = "top"
  /\ wake = "NoEvent"
  /\ hist.drained = {}
  /\ ops = <<>>

\* C17: a decision with need_redraw false leads straight back to the top of
\* the loop and changes neither the configure request, the surface nor the
\* window; the steps of a redraw are only taken with need_redraw true; the
\* request, the surface and the window change in those steps only; and back
\* at the top nothing was done, no surface is live and no request is unsent.
C17_NoRedrawNoEffect ==
  /\ [][(pc = "decide" /\ pc' # "decide" /\ ~need_redraw') =>
          (pc' = "top" /\ UNCHANGED <<cfg, surface, win, ops>>)]_vars
  /\ [][(cfg' # cfg \/ surface' # surface \/ win' # win) =>
          (pc \in RedrawPcs /\ need_redraw)]_vars
  /\ [](pc \in RedrawPcs => need_redraw)
  /\ []((pc = "top" /\ wake \in {"Ready", "NoEvent", "Error"} /\ ~need_redraw) =>
          (ops = <<>> /\ ~surface.live /\ (cfg.mask = {} \/ cfg.sent)))

\* C17: an iteration woken by an event decided not to redraw, after an
\* earlier redraw had set the geometry of the window.
C17_SkippedAfterEarlierRedraw ==
  /\ pc = "top"
  /\ wake = "Ready"
  /\ ~need_redraw
  /\ hist.drained # {}
  /\ cfg.mask # {}
  /\ cfg.sent
  /\ win.width = cfg.width

\* C18: every configure request of the loop carries x, y, width, height and
\* stack mode Above; every redraw past its configure step has issued such a
\* request; the window is never left other than above.
C18_ConfigureComplete ==
  /\ cfg.mask # {} =>
       /\ cfg.mask = {"x", "y", "width", "height", "stack_mode"}
       /\ cfg.stack_mode = 0
  /\ pc \in {"surface", "paint", "destroy", "flush"} =>
       (cfg.mask # {} /\ ~cfg.sent)
  /\ win.above

\* C18: the request of a redraw has reached the server and set the geometry
\* of the window.
C18_RequestApplied ==
  /\ pc = "top"
  /\ cfg.mask # {}
  /\ cfg.sent
  /\ win.width = cfg.width
  /\ win.height = cfg.height
  /\ win.x = cfg.x

\* C20: the drain ends only with the queue empty; an iteration that drained
\* redraw events, however many and with or without a timeout, has redrawn
\* exactly once when it is back at the top; need_redraw is false when a
\* drain starts; and a redraw is under way only in an iteration woken by a
\* timeout or having drained a redraw event itself.
C20_Coalesced ==
  /\ [][(pc = "drain" /\ pc' = "decide") => xq = <<>>]_vars
  /\ []((pc = "top" /\ wake \notin {"none", "Interrupted"}
         /\ \E ev \in hist.drained : RequestsRedraw(ev)) =>
          RedrawOps = RedrawOrder)
  /\ []((pc = "drain" /\ hist.drained = {}) => ~need_redraw)
  /\ [](pc \in RedrawPcs =>
          (wake = "Timeout" \/ \E ev \in hist.drained : RequestsRedraw(ev)))

\* C20: one iteration has drained two redraw events and redrawn once.
C20_TwoRedrawEventsOneRedraw ==
  /\ pc = "top"
  /\ wake = "Ready"
  /\ Cardinality({ev \in hist.drained : RequestsRedraw(ev)}) >= 2
  /\ RedrawOps = RedrawOrder

HexDigitSet ==
  {"0", "1", "2", "3", "4", "5", "6", "7", "8", "9",
   "a", "b", "c", "d", "e", "f", "A", "B", "C", "D", "E", "F"}

\* six hexadecimal digits, with or without a leading #
WellFormedColor(str) ==
  LET body == IF str # <<>> /\ str[1] = "#" THEN Tail(str) ELSE str
  IN  Len(body) = 6 /\ \A i \in 1..6 : body[i] \in HexDigitSet

MalformedColorOption(op) ==
  op.name \in {"fg", "bg"} /\ ~WellFormedColor(op.arg)

\* the options at which option parsing ends the process
StopsParsing(op) == op.name \in {"h", "?"} \/ MalformedColorOption(op)

ServerAnswersAll == boot.x.connect /\ boot.x.screen /\ boot.x.visual

\* the first option that ends parsing is a malformed colour
MalformedColorMet ==
  \E i \in DOMAIN boot.args :
    /\ MalformedColorOption(boot.args[i])
    /\ \A j \in 1..(i - 1) : ~StopsParsing(boot.args[j])

\* C14: a window exists and the loop is entered only if the X server
\* answered connect, screen and visual and no option stopped the parsing; a
\* connection is attempted only if no colour option is malformed; a process
\* that has left has status 0, 1 or 2: 2 with no connection attempted and no
\* window, 1 after exactly one connection attempt with no window and only
\* when the server failed, 0 only for the help option; parsing that meets a
\* malformed colour leaves with 2, and a server failure after clean options
\* leaves with 1.
C14_StartupFailures ==
  /\ (pc \in LoopPcs \cup {"measure"} \/ boot.windows > 0) =>
       /\ ServerAnswersAll
       /\ \A i \in DOMAIN boot.args : ~StopsParsing(boot.args[i])
       /\ boot.windows = 1
  /\ boot.connects > 0 =>
       \A i \in DOMAIN boot.args : ~MalformedColorOption(boot.args[i])
  /\ pc = "exited" =>
       /\ boot.status \in {0, 1, 2}
       /\ boot.status = 2 => (boot.connects = 0 /\ boot.windows = 0)
       /\ boot.status = 1 =>
            (boot.connects = 1 /\ boot.windows = 0 /\ ~ServerAnswersAll)
       /\ boot.status = 0 => \E i \in DOMAIN boot.args : boot.args[i].name = "h"
       /\ MalformedColorMet => boot.status = 2
       /\ (\A i \in DOMAIN boot.args : ~StopsParsing(boot.args[i])) =>
            boot.status = 1
  /\ (pc \notin {"args", "exited"} /\ ~ServerAnswersAll) =>
       pc \in {"connect", "screen", "visual"}

\* C14: the process has left with status 2 at a malformed --bg that follows a
\* well-formed --fg, no connection attempted.
C14_MalformedAfterWellFormed ==
  /\ pc = "exited"
  /\ boot.status = 2
  /\ boot.connects = 0
  /\ Len(boot.args) = 2
  /\ boot.args[1].name = "fg" /\ WellFormedColor(boot.args[1].arg)
  /\ MalformedColorOption(boot.args[2])
  /\ opt.fg # DefaultOptions.fg

\* C19: while the loop is at its top or inside poll() no window surface is
\* live, and throughout the loop there is exactly the one measurement surface
\* made at startup.
C19_NoSurfaceWhileSleeping ==
  /\ pc \in {"top", "poll"} => ~surface.live
  /\ boot.measure_surfaces = 1

\* C19: the loop is back inside poll() after a redraw whose surface was
\* created, painted and destroyed.
C19_SleepingAfterRedraw ==
  /\ pc = "poll"
  /\ hist.out.sec >= 0
  /\ win.drawn.text # <<>>
  /\ ~surface.live

====
